---------------------------- MODULE Spec2Model ----------------------------
(***************************************************************************)
(* Property storage of the mujs object model (jsproperty.c): the AA-tree   *)
(* of js_Property records, the insertion-ordered list threaded through the *)
(* same records (head / tail / next / prevp), prototype-chain lookup, the  *)
(* property iterator and array truncation.                                 *)
(*                                                                         *)
(* Memory is modelled as a heap of record slots.  Slot 0 is the static     *)
(* sentinel; slots 1..MaxNodes are what malloc can hand out.  free() takes *)
(* a slot out of `allocated`; pointers to it stay what they were           *)
(* (dangling), and malloc may hand any free slot out again.  The content   *)
(* of a freed slot is indeterminate: the model keeps no content for it, a  *)
(* write through a dangling pointer is recorded (uaf) and its data         *)
(* dropped, and newproperty initialises every field of a slot it gets.     *)
(***************************************************************************)
EXTENDS Integers, Naturals, Sequences, FiniteSets, TLC

(* ------------------------------ bounds -------------------------------- *)

\* number of heap slots malloc can hand out for js_Property records
MaxNodes == 3
\* number of distinct property names used by the tree specification
NKeys == 3
\* array lengths passed to jsV_resizearray are 0..MaxLen
MaxLen == 2
\* number of distinct property names used on the prototype chain
NChainKeys == 2

(* ----------------------------- constants ------------------------------ *)

sentinel == 0
NULL == -1
JS_DONTENUM == 2

JS_TUNDEFINED == "undefined"

JS_COBJECT == "JS_COBJECT"
JS_CARRAY == "JS_CARRAY"
JS_CITERATOR == "JS_CITERATOR"

(* --------------------------- property names --------------------------- *)

\* A name is a C string, modelled as the sequence of its character codes.
\* "0" "01" "1" "10" "2" "x"
NameUniverse ==
  << <<49>>, <<50>>, <<48>>, <<120>>, <<49, 48>>, <<48, 49>> >>

Keys == { NameUniverse[i] : i \in 1..NKeys }
\* "0" "1" "10" "01"
ArrayKeys == { <<48>>, <<49>>, <<49, 48>>, <<48, 49>> }

\* strcmp(3): the sign of the first differing byte, the shorter string first
RECURSIVE strcmpFrom(_, _, _)
strcmpFrom(a, b, i) ==
  IF i > Len(a) /\ i > Len(b) THEN 0
  ELSE IF i > Len(a) THEN -1
  ELSE IF i > Len(b) THEN 1
  ELSE IF a[i] < b[i] THEN -1
  ELSE IF a[i] > b[i] THEN 1
  ELSE strcmpFrom(a, b, i + 1)

strcmp(a, b) == strcmpFrom(a, b, 1)

(* ------------------------------- state -------------------------------- *)

Slots == 1..MaxNodes

\* objects A -> B -> C form a prototype chain; IO is the object that
\* jsV_newiterator creates for a caller, IT the one it creates for
\* jsV_resizearray
A == 1
B == 2
C == 3
IO == 4
IT == 5
PlainObjs == {A, B, C}
ObjIds == {A, B, C, IO, IT}

VARIABLES
  heap,       \* [0..MaxNodes -> js_Property]: slot 0 is the sentinel
  allocated,  \* the slots malloc has handed out and free has not taken back
  objs,       \* [ObjIds -> js_Object]
  last,       \* the call that led to this state and what it returned
  written,    \* history: per object and name, the last value/atts written
  order       \* history: per object, the names in order of first insertion

vars == <<heap, allocated, objs, last, written, order>>

\* a js_Property ** : nothing, &obj->head, or &node->next
NoSlot == [kind |-> "null", id |-> 0]
HeadOf(o) == [kind |-> "head", id |-> o]
NextOf(n) == [kind |-> "next", id |-> n]

sentinelRecord ==
  [name |-> <<>>, left |-> sentinel, right |-> sentinel, level |-> 0,
   atts |-> 0, value |-> JS_TUNDEFINED, prevp |-> NoSlot, next |-> NULL]

\* the memory a call works on; uaf: the call touched a freed record
Mem == [heap |-> heap, objs |-> objs, allocated |-> allocated, uaf |-> FALSE]

\* node->next = v and node->prevp = p, for a node that may have been freed
wrnext(m, node, v) ==
  IF node \in m.allocated THEN [m EXCEPT !.heap[node].next = v]
  ELSE [m EXCEPT !.uaf = TRUE]

wrprevp(m, node, p) ==
  IF node \in m.allocated THEN [m EXCEPT !.heap[node].prevp = p]
  ELSE [m EXCEPT !.uaf = TRUE]

(* --------------------------- tree primitives -------------------------- *)

newproperty(m, slot, name) ==
  [m EXCEPT
     !.allocated = @ \cup {slot},
     !.heap[slot] = [name |-> name, left |-> sentinel, right |-> sentinel,
                     level |-> 1, atts |-> 0, value |-> JS_TUNDEFINED,
                     prevp |-> NoSlot, next |-> NULL]]

RECURSIVE lookup(_, _, _)
lookup(h, node, name) ==
  IF node = sentinel THEN NULL
  ELSE LET c == strcmp(name, h[node].name) IN
       IF c = 0 THEN node
       ELSE IF c < 0 THEN lookup(h, h[node].left, name)
       ELSE lookup(h, h[node].right, name)

\* skew and split return the heap after their writes and the new subtree root
skew(h, node) ==
  IF h[h[node].left].level = h[node].level
  THEN LET l == h[node].left
           h1 == [h EXCEPT ![node].left = h[l].right]
           h2 == [h1 EXCEPT ![l].right = node]
       IN [h |-> h2, node |-> l]
  ELSE [h |-> h, node |-> node]

\* split that rotates but leaves the new root's level as it was
split_nolevel(h, node) ==
  IF h[h[h[node].right].right].level = h[node].level
  THEN LET r == h[node].right
           h1 == [h EXCEPT ![node].right = h[r].left]
           h2 == [h1 EXCEPT ![r].left = node]
       IN [h |-> h2, node |-> r]
  ELSE [h |-> h, node |-> node]

split(h, node) ==
  IF h[h[h[node].right].right].level = h[node].level
  THEN LET r == h[node].right
           h1 == [h EXCEPT ![node].right = h[r].left]
           h2 == [h1 EXCEPT ![r].left = node]
           h3 == [h2 EXCEPT ![r].level = @ + 1]
       IN [h |-> h3, node |-> r]
  ELSE [h |-> h, node |-> node]

\* insert descending to the right for a smaller name and to the left for a
\* larger one
RECURSIVE insert_mirrored(_, _, _, _)
insert_mirrored(m, node, name, slot) ==
  IF node # sentinel
  THEN LET c == strcmp(name, m.heap[node].name) IN
       IF c = 0 THEN [m |-> m, node |-> node, result |-> node]
       ELSE LET r == IF c > 0
                     THEN insert_mirrored(m, m.heap[node].left, name, slot)
                     ELSE insert_mirrored(m, m.heap[node].right, name, slot)
                h1 == IF c > 0 THEN [r.m.heap EXCEPT ![node].left = r.node]
                      ELSE [r.m.heap EXCEPT ![node].right = r.node]
                s == skew(h1, node)
                t == split(s.h, s.node)
            IN [m |-> [r.m EXCEPT !.heap = t.h], node |-> t.node,
                result |-> r.result]
  ELSE [m |-> newproperty(m, slot, name), node |-> slot, result |-> slot]

RECURSIVE insert(_, _, _, _)
insert(m, node, name, slot) ==
  IF node # sentinel
  THEN LET c == strcmp(name, m.heap[node].name) IN
       IF c = 0 THEN [m |-> m, node |-> node, result |-> node]
       ELSE LET r == IF c < 0 THEN insert(m, m.heap[node].left, name, slot)
                     ELSE insert(m, m.heap[node].right, name, slot)
                h1 == IF c < 0 THEN [r.m.heap EXCEPT ![node].left = r.node]
                      ELSE [r.m.heap EXCEPT ![node].right = r.node]
                s == skew(h1, node)
                t == split(s.h, s.node)
            IN [m |-> [r.m EXCEPT !.heap = t.h], node |-> t.node,
                result |-> r.result]
  ELSE [m |-> newproperty(m, slot, name), node |-> slot, result |-> slot]

\* *p = v for a js_Property **p
store(m, p, v) ==
  CASE p.kind = "head" -> [m EXCEPT !.objs[p.id].head = v]
    [] p.kind = "next" -> wrnext(m, p.id, v)

\* free(3): the slot may be handed out again and holds nothing to rely on
free(m, node) ==
  [m EXCEPT !.allocated = @ \ {node}, !.heap[node] = sentinelRecord]

freenode(m, node) ==
  LET nx == m.heap[node].next
      m1 == IF nx # NULL THEN wrprevp(m, nx, m.heap[node].prevp) ELSE m
      m2 == store(m1, m1.heap[node].prevp, m1.heap[node].next)
  IN free(m2, node)

RECURSIVE leftmost(_, _)
leftmost(h, succ) ==
  IF h[succ].left # sentinel THEN leftmost(h, h[succ].left) ELSE succ

\* the level fix writing the right child's level without the comparison
lowerlevel_noguard(h, node) ==
  LET h1 == [h EXCEPT ![node].level = @ - 1] IN
  [h1 EXCEPT ![h1[node].right].level = h1[node].level]

\* if (node->right->level > --node->level) node->right->level = node->level
lowerlevel(h, node) ==
  LET h1 == [h EXCEPT ![node].level = @ - 1] IN
  IF h1[h1[node].right].level > h1[node].level
  THEN [h1 EXCEPT ![h1[node].right].level = h1[node].level]
  ELSE h1

\* node->right = skew(node->right), on the subtree s = [h, node]
skewright(s) ==
  LET t == skew(s.h, s.h[s.node].right)
  IN [h |-> [t.h EXCEPT ![s.node].right = t.node], node |-> s.node]

\* node->right->right = skew(node->right->right)
skewrightright(s) ==
  LET t == skew(s.h, s.h[s.h[s.node].right].right)
  IN [h |-> [t.h EXCEPT ![t.h[s.node].right].right = t.node],
      node |-> s.node]

\* node = split(node)
splitnode(s) == split(s.h, s.node)

\* node->right = split(node->right)
splitright(s) ==
  LET t == split(s.h, s.h[s.node].right)
  IN [h |-> [t.h EXCEPT ![s.node].right = t.node], node |-> s.node]

\* the level fix and the rotations applied without the test of lines 129-130
rebalance_always(h, node) ==
  splitright(splitnode(skewrightright(skewright(
    skew(lowerlevel(h, node), node)))))

\* lines 129-139: the level fix and the five rotations on the way back up
rebalance(h, node) ==
  IF h[h[node].left].level < h[node].level - 1
     \/ h[h[node].right].level < h[node].level - 1
  THEN splitright(splitnode(skewrightright(skewright(
         skew(lowerlevel(h, node), node)))))
  ELSE [h |-> h, node |-> node]

\* the successor's name and value move, its attributes do not
copysucc_noatts(m, node, succ) ==
  [m EXCEPT !.heap[node].name = m.heap[succ].name,
            !.heap[node].value = m.heap[succ].value]

\* lines 122-124: the in-order successor's record moves into the node
copysucc(m, node, succ) ==
  [m EXCEPT !.heap[node].name = m.heap[succ].name,
            !.heap[node].atts = m.heap[succ].atts,
            !.heap[node].value = m.heap[succ].value]

RECURSIVE delete(_, _, _)
delete(m, node, name) ==
  IF node # sentinel
  THEN LET c == strcmp(name, m.heap[node].name)
           d == IF c < 0
                THEN LET r == delete(m, m.heap[node].left, name)
                     IN [m |-> [r.m EXCEPT !.heap[node].left = r.node],
                         node |-> node]
                ELSE IF c > 0
                THEN LET r == delete(m, m.heap[node].right, name)
                     IN [m |-> [r.m EXCEPT !.heap[node].right = r.node],
                         node |-> node]
                ELSE IF m.heap[node].left = sentinel
                THEN [m |-> freenode(m, node), node |-> m.heap[node].right]
                ELSE IF m.heap[node].right = sentinel
                THEN [m |-> freenode(m, node), node |-> m.heap[node].left]
                ELSE LET succ == leftmost(m.heap, m.heap[node].right)
                         m1 == copysucc(m, node, succ)
                         r == delete(m1, m1.heap[node].right,
                                     m.heap[succ].name)
                     IN [m |-> [r.m EXCEPT !.heap[node].right = r.node],
                         node |-> node]
           b == rebalance(d.m.heap, d.node)
       IN [m |-> [d.m EXCEPT !.heap = b.h], node |-> b.node]
  ELSE [m |-> m, node |-> node]


(* --------------------------- object property store -------------------- *)

\* jsV_newobject: calloc'ed, so head, tail and the payload start as zero
jsV_newobject(type, prototype) ==
  [type |-> type, properties |-> sentinel, prototype |-> prototype,
   head |-> NULL, tail |-> NULL, length |-> 0, target |-> NULL,
   iter |-> <<>>]

jsV_getownproperty(m, o, name) == lookup(m.heap, m.objs[o].properties, name)

\* jsV_getproperty that does not go on to the prototype
jsV_getproperty_ownonly(m, o, name) ==
  lookup(m.heap, m.objs[o].properties, name)

RECURSIVE jsV_getproperty(_, _, _)
jsV_getproperty(m, o, name) ==
  LET ref == lookup(m.heap, m.objs[o].properties, name) IN
  IF ref # NULL THEN ref
  ELSE IF m.objs[o].prototype # NULL
       THEN jsV_getproperty(m, m.objs[o].prototype, name)
       ELSE NULL

\* jsV_setproperty that links the record it gets without asking whether
\* it is linked already
jsV_setproperty_relink(m, o, name, slot) ==
  LET r == insert(m, m.objs[o].properties, name, slot)
      m1 == [r.m EXCEPT !.objs[o].properties = r.node]
      result == r.result
      m2 == IF m1.objs[o].head = NULL
            THEN [m1 EXCEPT !.heap[result].prevp = HeadOf(o),
                            !.objs[o].head = result,
                            !.objs[o].tail = result]
            ELSE LET t == m1.objs[o].tail
                     m3 == [m1 EXCEPT !.heap[result].prevp = NextOf(t)]
                 IN [wrnext(m3, t, result) EXCEPT !.objs[o].tail = result]
  IN [m |-> m2, result |-> result]

\* `slot` is the address malloc returns if insert has to create a record
jsV_setproperty(m, o, name, slot) ==
  LET r == insert(m, m.objs[o].properties, name, slot)
      m1 == [r.m EXCEPT !.objs[o].properties = r.node]
      result == r.result
      m2 == IF m1.heap[result].prevp = NoSlot
            THEN IF m1.objs[o].head = NULL
                 THEN [m1 EXCEPT !.heap[result].prevp = HeadOf(o),
                                 !.objs[o].head = result,
                                 !.objs[o].tail = result]
                 ELSE LET t == m1.objs[o].tail
                          m3 == [m1 EXCEPT !.heap[result].prevp = NextOf(t)]
                      IN [wrnext(m3, t, result) EXCEPT
                            !.objs[o].tail = result]
            ELSE m1
  IN [m |-> m2, result |-> result]

\* jsV_delproperty that drops the root delete returns
jsV_delproperty_keeproot(m, o, name) ==
  delete(m, m.objs[o].properties, name).m

jsV_delproperty(m, o, name) ==
  LET r == delete(m, m.objs[o].properties, name)
  IN [r.m EXCEPT !.objs[o].properties = r.node]

(* ------------------------------ enumeration --------------------------- *)

\* atts & JS_DONTENUM
DontEnum(atts) == (atts \div JS_DONTENUM) % 2 = 1

RECURSIVE itshadow(_, _, _, _)
itshadow(m, top, bot, name) ==
  IF top = bot THEN FALSE
  ELSE LET prop == lookup(m.heap, m.objs[top].properties, name) IN
       IF prop # NULL /\ ~DontEnum(m.heap[prop].atts) THEN TRUE
       ELSE itshadow(m, m.objs[top].prototype, bot, name)

\* the inner loop of itwalk: the names it appends for the records from
\* prop on; fuel bounds the walk (NewIterator never starts one that would
\* not end)
RECURSIVE itprops(_, _, _, _, _)
itprops(m, top, obj, prop, fuel) ==
  IF prop = NULL \/ fuel = 0 THEN <<>>
  ELSE (IF ~DontEnum(m.heap[prop].atts)
           /\ ~itshadow(m, top, obj, m.heap[prop].name)
        THEN <<m.heap[prop].name>> ELSE <<>>)
       \o itprops(m, top, obj, m.heap[prop].next, fuel - 1)

\* the outer loop of itwalk: the queue it builds, from object obj on
RECURSIVE itwalk(_, _, _, _)
itwalk(m, top, obj, own) ==
  IF obj = NULL THEN <<>>
  ELSE itprops(m, top, obj, m.objs[obj].head, MaxNodes + 1)
       \o (IF own THEN <<>>
           ELSE itwalk(m, top, m.objs[obj].prototype, own))

\* io is the object jsV_newobject returns to jsV_newiterator
jsV_newiterator(m, io, obj, own) ==
  [m EXCEPT !.objs[io] =
     [jsV_newobject(JS_CITERATOR, NULL) EXCEPT
        !.target = obj, !.iter = itwalk(m, obj, obj, own)]]

\* the loop returning the first entry without asking whether it resolves
nextloop_nocheck(m, io) ==
  IF m.objs[io].iter = <<>>
  THEN [m |-> m, name |-> <<>>, ret |-> "end"]
  ELSE [m |-> [m EXCEPT !.objs[io].iter = Tail(@)],
        name |-> Head(m.objs[io].iter), ret |-> "name"]

\* the loop returning the first entry that resolves without taking it off
\* the queue
RECURSIVE nextloop_keep(_, _)
nextloop_keep(m, io) ==
  IF m.objs[io].iter = <<>>
  THEN [m |-> m, name |-> <<>>, ret |-> "end"]
  ELSE LET name == Head(m.objs[io].iter)
           m1 == [m EXCEPT !.objs[io].iter = Tail(@)]
       IN IF jsV_getproperty(m1, m1.objs[io].target, name) # NULL
          THEN [m |-> m, name |-> name, ret |-> "name"]
          ELSE nextloop_keep(m1, io)

\* the while loop of jsV_nextiterator
RECURSIVE nextloop(_, _)
nextloop(m, io) ==
  IF m.objs[io].iter = <<>>
  THEN [m |-> m, name |-> <<>>, ret |-> "end"]
  ELSE LET name == Head(m.objs[io].iter)
           m1 == [m EXCEPT !.objs[io].iter = Tail(@)]
       IN IF jsV_getproperty(m1, m1.objs[io].target, name) # NULL
          THEN [m |-> m1, name |-> name, ret |-> "name"]
          ELSE nextloop(m1, io)

\* jsV_nextiterator without the test of the object's class
jsV_nextiterator_nocheck(m, io) == nextloop(m, io)

\* js_typeerror does not return: the call ends there
jsV_nextiterator(m, io) ==
  IF m.objs[io].type # JS_CITERATOR
  THEN [m |-> m, name |-> <<>>, ret |-> "typeerror"]
  ELSE nextloop(m, io)

(* --------------------------- array truncation ------------------------- *)

IsDigit(c) == 48 <= c /\ c <= 57

RECURSIVE DecimalValue(_, _)
DecimalValue(s, acc) ==
  IF s = <<>> THEN acc
  ELSE DecimalValue(Tail(s), acc * 10 + (Head(s) - 48))

\* a string of decimal digits is that number; any other string of the
\* model's names is NaN
jsV_stringtonumber(s) ==
  IF s # <<>> /\ \A i \in 1..Len(s) : IsDigit(s[i])
  THEN [nan |-> FALSE, n |-> DecimalValue(s, 0)]
  ELSE [nan |-> TRUE, n |-> 0]

\* NaN becomes 0; the numbers of the model's names are below 100, which
\* the reduction modulo 2^32 leaves as they are
jsV_numbertouint32(x) == IF x.nan THEN 0 ELSE x.n

RECURSIVE jsV_numbertostring(_)
jsV_numbertostring(k) ==
  IF k < 10 THEN <<48 + k>>
  ELSE Append(jsV_numbertostring(k \div 10), 48 + (k % 10))

\* the while loop of jsV_resizearray; deleted: the names it passed to
\* jsV_delproperty
RECURSIVE resizeloop(_, _, _, _)
resizeloop(m, obj, newlen, deleted) ==
  LET r == jsV_nextiterator(m, IT) IN
  IF r.ret # "name" THEN [m |-> r.m, deleted |-> deleted]
  ELSE LET k == jsV_numbertouint32(jsV_stringtonumber(r.name)) IN
       IF k >= newlen /\ strcmp(r.name, jsV_numbertostring(k)) = 0
       THEN resizeloop(jsV_delproperty(r.m, obj, r.name), obj, newlen,
                       deleted \cup {r.name})
       ELSE resizeloop(r.m, obj, newlen, deleted)

jsV_resizearray(m, obj, newlen) ==
  LET r == IF newlen < m.objs[obj].length
           THEN resizeloop(jsV_newiterator(m, IT, obj, TRUE), obj, newlen,
                           {})
           ELSE [m |-> m, deleted |-> {}]
  IN [m |-> [r.m EXCEPT !.objs[obj].length = newlen],
      deleted |-> r.deleted]

(* ------------------------------- actions ------------------------------ *)

\* the (value, attributes) pairs a caller writes through the record that
\* jsV_setproperty returns; the value is an opaque payload
Payloads == { [value |-> "v1", atts |-> 0],
              [value |-> "v2", atts |-> JS_DONTENUM] }
NoVal == [value |-> "none", atts |-> 0]

Without(s, k) == SelectSeq(s, LAMBDA x : x # k)
Contains(s, k) == \E i \in 1..Len(s) : s[i] = k

(* Addresses have no meaning beyond identity (the code only compares    *)
(* pointers for equality), so states are kept up to a renaming of the    *)
(* slots: after each call the slots are renumbered in the order in which  *)
(* the objects' trees, then their list pointers, reach them.             *)
RECURSIVE InOrder(_, _, _)
InOrder(h, node, fuel) ==
  IF node \notin Slots \/ fuel = 0 THEN <<>>
  ELSE InOrder(h, h[node].left, fuel - 1) \o <<node>>
       \o InOrder(h, h[node].right, fuel - 1)

RECURSIVE Dedupe(_, _)
Dedupe(s, seen) ==
  IF s = <<>> THEN <<>>
  ELSE IF Head(s) \in seen \/ Head(s) \notin Slots
       THEN Dedupe(Tail(s), seen)
       ELSE <<Head(s)>> \o Dedupe(Tail(s), seen \cup {Head(s)})

RECURSIVE Flatten(_)
Flatten(ss) == IF ss = <<>> THEN <<>> ELSE Head(ss) \o Flatten(Tail(ss))

SlotOrder(m) ==
  LET trees == Flatten([o \in 1..3 |->
                          InOrder(m.heap, m.objs[o].properties, MaxNodes)])
      ends == Flatten([o \in 1..3 |-> <<m.objs[o].head, m.objs[o].tail>>])
      links == Flatten([i \in 1..Len(trees) |->
                          <<IF m.heap[trees[i]].prevp.kind = "next"
                            THEN m.heap[trees[i]].prevp.id ELSE NULL,
                            m.heap[trees[i]].next>>])
      rest == [i \in 1..MaxNodes |-> i]
  IN Dedupe(trees \o ends \o links \o rest, {})

\* the new number of each slot: its place in SlotOrder
SlotPerm(so) == [x \in Slots |-> CHOOSE i \in 1..Len(so) : so[i] = x]

Moved(perm, x) == IF x \in Slots THEN perm[x] ELSE x

MovedRecord(perm, r) ==
  [r EXCEPT !.left = Moved(perm, @), !.right = Moved(perm, @),
            !.next = Moved(perm, @),
            !.prevp = IF @.kind = "next"
                      THEN [@ EXCEPT !.id = Moved(perm, @)] ELSE @]

\* the call that was made (op and its arguments obj, name, own, newlen),
\* what it returned (ret: a record `result`, a name `retname`, the end of
\* the sequence, or a type error raised through js_typeerror), whether
\* the name was an own property of obj when the call was made (hit), and
\* how many queue entries jsV_nextiterator released (popped)
Call(op, o) ==
  [op |-> op, obj |-> o, name |-> <<>>, own |-> FALSE, newlen |-> 0,
   hit |-> FALSE, result |-> NULL, ret |-> "none", retname |-> <<>>,
   popped |-> 0]

\* the call leaves memory mem and returned l
Commit(mem, l) ==
  \E m \in {mem} : \E so \in {SlotOrder(m)} : \E perm \in {SlotPerm(so)} :
    /\ heap' = [i \in 0..MaxNodes |->
                  MovedRecord(perm, m.heap[IF i = 0 THEN 0 ELSE so[i]])]
    /\ objs' = [x \in ObjIds |->
                  [m.objs[x] EXCEPT !.properties = Moved(perm, @),
                                    !.head = Moved(perm, @),
                                    !.tail = Moved(perm, @)]]
    /\ allocated' = { perm[x] : x \in m.allocated }
    /\ last' = [l EXCEPT !.result = Moved(perm, @)] @@ [uaf |-> m.uaf]

\* the addresses malloc may return: any slot that is not allocated (slots
\* that no pointer refers to are interchangeable: the lowest stands for them)
Referenced ==
  { objs[o].tail : o \in PlainObjs } \cup { objs[o].head : o \in PlainObjs }
  \cup { heap[n].next : n \in allocated }
  \cup { heap[n].prevp.id : n \in { x \in allocated :
                                      heap[x].prevp.kind = "next" } }

FreeSlots ==
  LET unused == Slots \ allocated
      plain == unused \ Referenced
  IN (unused \cap Referenced)
     \cup (IF plain = {} THEN {}
           ELSE {CHOOSE x \in plain : \A y \in plain : x <= y})

\* jsV_setproperty(J, o, k) followed by the caller's write of value and
\* attributes through the returned record
SetProperty(o, k, p) ==
  /\ \/ jsV_getownproperty(Mem, o, k) # NULL
     \/ FreeSlots # {}
  /\ \E slot \in IF jsV_getownproperty(Mem, o, k) # NULL THEN {NULL}
                 ELSE FreeSlots :
       \E r \in {jsV_setproperty(Mem, o, k, slot)} :
         Commit([r.m EXCEPT !.heap[r.result].value = p.value,
                            !.heap[r.result].atts = p.atts],
                [Call("set", o) EXCEPT
                   !.name = k, !.result = r.result, !.ret = "record",
                   !.hit = jsV_getownproperty(Mem, o, k) # NULL])
  /\ written' = [written EXCEPT ![o][k] = p]
  /\ order' = [order EXCEPT
                 ![o] = IF Contains(@, k) THEN @ ELSE Append(@, k)]

DelProperty(o, k) ==
  /\ \E m \in {jsV_delproperty(Mem, o, k)} : 
       Commit(m, [Call("del", o) EXCEPT
                    !.name = k,
                    !.hit = jsV_getownproperty(Mem, o, k) # NULL])
  /\ written' = [written EXCEPT ![o][k] = NoVal]
  /\ order' = [order EXCEPT ![o] = Without(@, k)]

\* the list from prop ends and holds allocated records only: itwalk's
\* inner loop terminates and reads no freed record.  (Within the bounds
\* every reachable list from head does.)
RECURSIVE ListEnds(_, _, _)
ListEnds(h, prop, fuel) ==
  IF prop = NULL THEN TRUE
  ELSE IF fuel = 0 \/ prop \notin allocated THEN FALSE
  ELSE ListEnds(h, h[prop].next, fuel - 1)

RECURSIVE ChainOf(_)
ChainOf(o) ==
  IF o = NULL THEN {} ELSE {o} \cup ChainOf(objs[o].prototype)

NewIterator(o, own) ==
  /\ \A x \in (IF own THEN {o} ELSE ChainOf(o)) :
       ListEnds(heap, objs[x].head, MaxNodes + 1)
  /\ Commit(jsV_newiterator(Mem, IO, o, own),
            [Call("newiterator", o) EXCEPT
               !.own = own])
  /\ UNCHANGED <<written, order>>

NextIterator(io) ==
  /\ \E r \in {jsV_nextiterator(Mem, io)} :
       Commit(r.m, [Call("next", io) EXCEPT
                      !.ret = r.ret, !.retname = r.name,
                      !.popped = Len(objs[io].iter)
                                 - Len(r.m.objs[io].iter)])
  /\ UNCHANGED <<written, order>>

ResizeArray(o, newlen) ==
  /\ ListEnds(heap, objs[o].head, MaxNodes + 1)
  /\ \E r \in {jsV_resizearray(Mem, o, newlen)} :
       /\ Commit(r.m, [Call("resize", o) EXCEPT
                         !.newlen = newlen])
       /\ written' = [written EXCEPT
                        ![o] = [k \in DOMAIN @ |->
                                  IF k \in r.deleted THEN NoVal ELSE @[k]]]
       /\ order' = [order EXCEPT
                      ![o] = SelectSeq(@, LAMBDA k : k \notin r.deleted)]

AllNames == Keys \cup ArrayKeys

InitWith(typeA) ==
  /\ heap = [n \in 0..MaxNodes |-> sentinelRecord]
  /\ allocated = {}
  /\ objs = [o \in ObjIds |->
               IF o = A THEN jsV_newobject(typeA, B)
               ELSE IF o = B THEN jsV_newobject(JS_COBJECT, C)
               ELSE IF o = C THEN jsV_newobject(JS_COBJECT, NULL)
               ELSE [jsV_newobject(JS_CITERATOR, NULL) EXCEPT !.target = A]]
  /\ last = Call("init", 0) @@ [uaf |-> FALSE]
  /\ written = [o \in PlainObjs |-> [k \in AllNames |-> NoVal]]
  /\ order = [o \in PlainObjs |-> <<>>]

\* A, B and C have been created, and an iterator over the still empty A
Init == InitWith(JS_COBJECT)

Enumerable == [value |-> "v1", atts |-> 0]

\* one object, any sequence of set and delete calls
Next ==
  \/ \E k \in Keys : SetProperty(A, k, Enumerable)
  \/ \E k \in Keys : DelProperty(A, k)

Spec == Init /\ [][Next]_vars

\* one object, any sequence of set and delete calls, the caller writing
\* any of the payloads
NextVal ==
  \/ \E k \in Keys, p \in Payloads : SetProperty(A, k, p)
  \/ \E k \in Keys : DelProperty(A, k)

SpecVal == Init /\ [][NextVal]_vars

\* the prototype chain A -> B -> C and one iterator over A
ChainKeys == { NameUniverse[i] : i \in 1..NChainKeys }

NextChain ==
  \/ \E o \in {A, B}, k \in ChainKeys, p \in Payloads :
       SetProperty(o, k, p)
  \/ SetProperty(C, NameUniverse[1], Enumerable)
  \/ \E k \in ChainKeys : DelProperty(A, k)
  \/ \E own \in BOOLEAN : NewIterator(A, own)
  \/ NextIterator(IO)

SpecChain == Init /\ [][NextChain]_vars

\* an array: jsV_setproperty on its index-like names, and jsV_resizearray
InitArr == InitWith(JS_CARRAY)

NextArr ==
  \/ \E k \in ArrayKeys, p \in Payloads : SetProperty(A, k, p)
  \/ \E n \in 0..MaxLen : ResizeArray(A, n)

SpecArr == InitArr /\ [][NextArr]_vars

\* a caller that sets every key, in any order and with any payload, and
\* then deletes every key, in any order
NextDrain ==
  \/ \E k \in Keys, p \in Payloads :
       /\ last.op \in {"init", "set"}
       /\ jsV_getownproperty(Mem, A, k) = NULL
       /\ SetProperty(A, k, p)
  \/ \E k \in Keys :
       /\ IF last.op = "del" THEN TRUE
          ELSE \A x \in Keys : jsV_getownproperty(Mem, A, x) # NULL
       /\ jsV_getownproperty(Mem, A, k) # NULL
       /\ DelProperty(A, k)

SpecDrain == Init /\ [][NextDrain]_vars

\* an iterator over A, and jsV_nextiterator called on the iterator and on
\* the plain objects A and B
NextMisuse ==
  \/ \E k \in ChainKeys : SetProperty(A, k, Enumerable)
  \/ \E k \in ChainKeys : DelProperty(A, k)
  \/ NewIterator(A, TRUE)
  \/ \E o \in {A, B, IO} : NextIterator(o)

SpecMisuse == Init /\ [][NextMisuse]_vars

(* ------------------------------- claims ------------------------------- *)

SeqSet(s) == { s[i] : i \in 1..Len(s) }
NoDuplicates(s) == \A i, j \in 1..Len(s) : s[i] = s[j] => i = j

\* the records of o's tree
TreeNodes(o) == SeqSet(InOrder(heap, objs[o].properties, MaxNodes))

\* the records reached from o's head by following next, at most MaxNodes + 1
RECURSIVE ListFrom(_, _, _)
ListFrom(h, prop, fuel) ==
  IF prop = NULL \/ fuel = 0 THEN <<>>
  ELSE <<prop>> \o ListFrom(h, h[prop].next, fuel - 1)

ListOf(o) == ListFrom(heap, objs[o].head, MaxNodes + 1)
Present(o, k) == jsV_getownproperty(Mem, o, k) # NULL

SearchCorrect ==
  \A k \in Keys :
    LET ref == jsV_getownproperty(Mem, A, k) IN
    IF written[A][k] = NoVal THEN ref = NULL
    ELSE /\ ref # NULL
         /\ heap[ref].value = written[A][k].value
         /\ heap[ref].atts = written[A][k].atts

\* a delete removed the middle one of three names, a node with two
\* children, and the two names left carry different payloads
SearchWitness ==
  /\ last.op = "del" /\ last.hit
  /\ \E k1, k2 \in Keys :
       /\ strcmp(k1, last.name) < 0 /\ strcmp(last.name, k2) < 0
       /\ written[A][k1] # NoVal /\ written[A][k2] # NoVal
       /\ written[A][k1] # written[A][k2]

\* C3: an own-only enumeration (all properties enumerable) yields the
\* present names in the order in which each was first inserted since its
\* last deletion.
OwnEnumerationInInsertionOrder ==
  ListEnds(heap, objs[A].head, MaxNodes + 1)
    => itwalk(Mem, A, A, TRUE) = order[A]

\* C4: the records reachable from head by next are exactly the records of
\* the tree, each once.
ListMatchesTree ==
  /\ ListEnds(heap, objs[A].head, MaxNodes + 1)
  /\ NoDuplicates(ListOf(A))
  /\ SeqSet(ListOf(A)) = TreeNodes(A)

\* C5: jsV_setproperty for a name that is present returns the existing
\* record, creates no record, and leaves the tree, the levels, the list,
\* head and tail as they were; only the value and attributes the caller
\* writes through the record change.
IdempotentSet ==
  [][(last'.op = "set" /\ last'.hit) =>
       LET ref == jsV_getownproperty(Mem, A, last'.name) IN
       /\ last'.result = ref
       /\ allocated' = allocated
       /\ objs' = objs
       /\ heap' = [heap EXCEPT
                     ![ref].value = written'[A][last'.name].value,
                     ![ref].atts = written'[A][last'.name].atts]]_vars

\* a set of a present name in a tree of three records
IdempotentSetWitness ==
  /\ last.op = "set" /\ last.hit
  /\ Cardinality(TreeNodes(A)) = 3

\* C10: head and tail are both null whenever the store holds no property.
EmptyStoreNullEnds ==
  objs[A].properties = sentinel
    => (objs[A].head = NULL /\ objs[A].tail = NULL)

\* o has name as an own property, enumerable / not enumerable
OwnEnumerable(o, name) ==
  /\ Present(o, name)
  /\ ~DontEnum(heap[jsV_getownproperty(Mem, o, name)].atts)

OwnDontEnum(o, name) ==
  /\ Present(o, name)
  /\ DontEnum(heap[jsV_getownproperty(Mem, o, name)].atts)

\* the names an iterator yields when it is consumed to the end
RECURSIVE Drain(_, _)
Drain(m, io) ==
  LET r == jsV_nextiterator(m, io) IN
  IF r.ret = "name" THEN <<r.name>> \o Drain(r.m, io) ELSE <<>>

FullChainIterator == last.op = "newiterator" /\ ~last.own /\ last.obj = A

\* C6: a full-chain enumeration yields each name at most once; a name
\* that A and its prototype B both define enumerable is yielded exactly
\* once, among A's names (before any name that A does not own).
ChainEnumerationOnce ==
  FullChainIterator =>
    LET q == objs[IO].iter IN
    /\ NoDuplicates(q)
    /\ \A x \in ChainKeys :
         (OwnEnumerable(A, x) /\ OwnEnumerable(B, x)) =>
           \E i \in 1..Len(q) :
             /\ q[i] = x
             /\ \A j \in 1..(i - 1) : Present(A, q[j])

\* the part of C6 that is about duplicates alone
ChainEnumerationNoDuplicates ==
  FullChainIterator => NoDuplicates(objs[IO].iter)

\* C7: with A's own "x" not enumerable and B's own "x" enumerable, a
\* full-chain iterator on A consumed to the end never yields "x".
ShadowedByDontEnum ==
  FullChainIterator =>
    \A x \in ChainKeys :
      (OwnDontEnum(A, x) /\ OwnEnumerable(B, x))
        => x \notin SeqSet(Drain(Mem, IO))

\* the names of a queue that resolve on the iterator's target, in order
Resolving(q) ==
  SelectSeq(q, LAMBDA n : jsV_getproperty(Mem, objs[IO].target, n) # NULL)

\* C8: jsV_nextiterator returns the first name of the queue that resolves
\* through jsV_getproperty on the target at that moment, the rest of the
\* resolving names stay queued in snapshot order, and when no queued name
\* resolves it returns the end of the sequence.
StaleEntriesSkipped ==
  [][last'.op = "next" =>
       LET live == Resolving(objs[IO].iter) IN
       IF live = <<>>
       THEN last'.ret = "end" /\ objs'[IO].iter = <<>>
       ELSE /\ last'.ret = "name"
            /\ last'.retname = Head(live)
            /\ jsV_getproperty(Mem, objs[IO].target, last'.retname) # NULL
            /\ SelectSeq(objs'[IO].iter,
                         LAMBDA n : jsV_getproperty(Mem, objs[IO].target, n)
                                      # NULL) = Tail(live)]_vars

\* a call released an entry whose name no longer resolved and returned the
\* name after it
StaleEntryWitness ==
  last.op = "next" /\ last.ret = "name" /\ last.popped > 1

\* a canonical decimal index string: digits only, no leading zero
CanonicalIndex(k) ==
  /\ k # <<>>
  /\ \A i \in 1..Len(k) : IsDigit(k[i])
  /\ (Len(k) > 1 => k[1] # 48)

\* C9: jsV_resizearray(obj, n) ends with the stored length n; when n is
\* below the old length it deletes exactly the own enumerable properties
\* whose names are canonical index strings of value >= n; otherwise it
\* deletes nothing.
ArrayTruncation ==
  [][last'.op = "resize" =>
       /\ objs'[A].length = last'.newlen
       /\ \A k \in ArrayKeys :
            (lookup(heap', objs'[A].properties, k) # NULL)
              <=> /\ Present(A, k)
                  /\ ~(/\ last'.newlen < objs[A].length
                       /\ OwnEnumerable(A, k)
                       /\ CanonicalIndex(k)
                       /\ DecimalValue(k, 0) >= last'.newlen)]_vars

\* C11: when every key that was set has been deleted again, in whatever
\* order the keys were set and deleted, the root of the tree is the sentinel.
DeleteAllEmptiesTree ==
  (\A k \in Keys : written[A][k] = NoVal) => objs[A].properties = sentinel

\* the last of the keys has just been deleted
DeleteAllWitness ==
  /\ last.op = "del" /\ last.hit
  /\ \A k \in Keys : written[A][k] = NoVal

\* C16: jsV_delproperty for a name that is not present changes nothing:
\* the tree, every record, the list, head and tail stay as they were and no
\* record is released.
DeleteAbsentNoop ==
  [][(last'.op = "del" /\ ~last'.hit) =>
       /\ heap' = heap
       /\ objs' = objs
       /\ allocated' = allocated]_vars

\* a delete of an absent name walked a tree of two records
DeleteAbsentWitness ==
  /\ last.op = "del" /\ ~last.hit
  /\ Cardinality(TreeNodes(A)) = 2

\* C18: the sentinel keeps level 0 and its left and right links keep
\* pointing to the sentinel.
SentinelUnchanged ==
  /\ heap[sentinel].level = 0
  /\ heap[sentinel].left = sentinel
  /\ heap[sentinel].right = sentinel

\* a delete left a root whose level the rebalancing lowered from 2 to 1: it
\* ran skew and split on the root's right child and right grandchild
SentinelWitness ==
  /\ last.op = "del" /\ last.hit
  /\ Cardinality(TreeNodes(A)) = 2
  /\ heap[objs[A].properties].level = 1

\* C19: whenever the store is not empty, tail is a live record that is
\* reachable from head and whose next is null, and no call has read or
\* written a released record.
TailValid ==
  /\ ~last.uaf
  /\ objs[A].properties # sentinel =>
       /\ objs[A].tail \in allocated
       /\ Contains(ListOf(A), objs[A].tail)
       /\ heap[objs[A].tail].next = NULL

\* C20: the in-order traversal of the tree is strictly increasing in
\* strcmp order.
SearchTreeOrder ==
  LET t == InOrder(heap, objs[A].properties, MaxNodes) IN
  \A i \in 1..(Len(t) - 1) : strcmp(heap[t[i]].name, heap[t[i + 1]].name) < 0

\* a delete removed the middle one of three names: the root, a node with
\* two children, took over its successor's name
SearchTreeWitness ==
  /\ last.op = "del" /\ last.hit
  /\ Cardinality(TreeNodes(A)) = 2
  /\ \E k1, k2 \in Keys :
       /\ strcmp(k1, last.name) < 0 /\ strcmp(last.name, k2) < 0
       /\ Present(A, k1) /\ Present(A, k2)

\* the nearest object from o on along the prototype chain that has had k
\* set and not deleted since
RECURSIVE Nearest(_, _)
Nearest(o, k) ==
  IF o = NULL THEN NULL
  ELSE IF written[o][k] # NoVal THEN o
  ELSE Nearest(objs[o].prototype, k)

\* C12: jsV_getownproperty(o, k) returns a record only of o's own tree and
\* only when o has k; jsV_getproperty(o, k) returns the own record of the
\* nearest object on the chain from o that has k, and nothing iff no object
\* on the chain has it.
OwnAndInheritedLookup ==
  \A o \in PlainObjs, k \in ChainKeys :
    LET own == jsV_getownproperty(Mem, o, k)
        got == jsV_getproperty(Mem, o, k)
        n == Nearest(o, k)
    IN /\ own # NULL => /\ written[o][k] # NoVal
                        /\ own \in TreeNodes(o)
                        /\ heap[own].name = k
       /\ IF n = NULL THEN got = NULL
          ELSE /\ got # NULL
               /\ got \in TreeNodes(n)
               /\ heap[got].name = k

\* A and B hold properties but not the name that only C, two steps up the
\* chain, has
InheritedLookupWitness ==
  /\ objs[A].properties # sentinel /\ objs[B].properties # sentinel
  /\ \E k \in ChainKeys :
       /\ written[A][k] = NoVal /\ written[B][k] = NoVal
       /\ written[C][k] # NoVal

\* the names that are enumerable, unshadowed properties on the chain from A
\* (of A alone if own): the nearest object that has the name has it
\* enumerable
SnapshotNames(own) ==
  { k \in AllNames :
      LET n == Nearest(A, k) IN
      /\ n # NULL
      /\ own => n = A
      /\ ~DontEnum(written[n][k].atts) }

\* the queue only loses names after jsV_newiterator, and a name that
\* jsV_nextiterator returns was in the queue
QueueOnlyShrinks ==
  [][/\ last'.op # "newiterator"
          => SeqSet(objs'[IO].iter) \subseteq SeqSet(objs[IO].iter)
     /\ (last'.op = "next" /\ last'.ret = "name")
          => last'.retname \in SeqSet(objs[IO].iter)]_vars

\* C13: a name that was not an enumerable, unshadowed property on the
\* chain when jsV_newiterator was called is never returned by a later
\* jsV_nextiterator call: the queue jsV_newiterator builds holds such names
\* only, no later call adds a name to it, and a returned name comes from it.
EnumerationIsSnapshot ==
  [][/\ last'.op = "newiterator"
          => SeqSet(objs'[IO].iter) \subseteq SnapshotNames(last'.own)
     /\ last'.op # "newiterator"
          => SeqSet(objs'[IO].iter) \subseteq SeqSet(objs[IO].iter)
     /\ (last'.op = "next" /\ last'.ret = "name")
          => last'.retname \in SeqSet(objs[IO].iter)]_vars

\* C14: jsV_nextiterator on an object that is not of the iterator class
\* raises a type error, returns no name and changes no property store and
\* no iterator queue.
TypeErrorOnNonIterator ==
  [][(last'.op = "next" /\ objs[last'.obj].type # JS_CITERATOR) =>
       /\ last'.ret = "typeerror"
       /\ last'.retname = <<>>
       /\ heap' = heap
       /\ objs' = objs
       /\ allocated' = allocated]_vars

\* the call was made on a plain object holding properties while an
\* iterator had names queued
TypeErrorWitness ==
  /\ last.op = "next" /\ last.ret = "typeerror"
  /\ objs[last.obj].properties # sentinel
  /\ objs[IO].iter # <<>>

\* C17: each jsV_nextiterator call takes a prefix off the queue and returns
\* the last name it took (or the end, leaving the queue empty); the queue
\* holds no name twice, so no entry is returned twice; set and delete do not
\* touch the queue; on an empty queue the call returns the end, so the end
\* is returned ever after.
SinglePass ==
  [][/\ last'.op = "next" =>
          LET q == objs[IO].iter
              n == Len(q) - Len(objs'[IO].iter)
          IN /\ n >= 0
             /\ objs'[IO].iter = SubSeq(q, n + 1, Len(q))
             /\ NoDuplicates(q)
             /\ last'.ret \in {"name", "end"}
             /\ last'.ret = "name" => (n >= 1 /\ last'.retname = q[n])
             /\ last'.ret = "end" => objs'[IO].iter = <<>>
             /\ q = <<>> => last'.ret = "end"
     /\ last'.op \in {"set", "del"} => objs'[IO].iter = objs[IO].iter]_vars

\* a call released the entries still queued, none of which resolved, and
\* returned the end
SinglePassWitness ==
  last.op = "next" /\ last.ret = "end" /\ last.popped > 0

\* C15: jsV_delproperty(obj, k) for a present k releases the record that
\* held k and no other; every other record keeps its name, and every other
\* key is still found in the record that held it before.  (Stated on the
\* memory the call leaves, before addresses are renumbered.)
RecordIdentityUnderDelete ==
  [][(last'.op = "del" /\ last'.hit) =>
       LET k == last'.name
           ref == jsV_getownproperty(Mem, A, k)
           m == jsV_delproperty(Mem, A, k)
       IN /\ m.allocated = allocated \ {ref}
          /\ \A n \in m.allocated : m.heap[n].name = heap[n].name
          /\ \A x \in Keys \ {k} :
               Present(A, x) =>
                 lookup(m.heap, m.objs[A].properties, x)
                   = jsV_getownproperty(Mem, A, x)]_vars

=============================================================================
